---- MODULE Spec2Model ----
(***************************************************************************)
(* Model of the yokai server modules: fxgrpcserver (module.go) and         *)
(* fxhttpserver (module.go).  The model covers the server build            *)
(* (NewFxGrpcServer / NewFxHttpServer), the interceptor chain, the fx      *)
(* lifecycle hooks (OnStart / OnStop), the background serve task and the   *)
(* calls that run through the interceptor chain.                           *)
(***************************************************************************)
EXTENDS Integers, Sequences, FiniteSets, TLC

\* ------------------------------------------------------------------ bounds

\* number of call slots (calls that can be in flight at the same time)
MaxCalls == 2

\* longest call name and longest exclusion rule, in characters
MaxNameLen == 3

\* largest number of registrations made before the build
MaxRegs == 3

\* largest number of handler groups registered by external code
MaxGroups == 2

\* largest number of middlewares registered by external code
MaxMiddlewares == 2

\* longest configured metrics namespace or subsystem
MaxIdLen == 2

\* longest configured bucket list, in characters
MaxBucketsLen == 5

\* largest number of server builds run against one metrics registry
MaxBuilds == 2

\* ------------------------------------------------------------- vocabulary

CallIds == 1..MaxCalls

\* full method names of the registered service
Methods == {"/test.Service/Unary", "/test.Service/Bidi"}

\* what the application handler of a call does
Outcomes == {"ok", "err", "panic"}

\* the fixed reference order of the cross-cutting concerns
ConcernOrder == <<"Recovery", "Tracing", "Logging", "Metrics">>

BoolSet == {TRUE, FALSE}

\* the configuration the modules read (p.Config), immutable after load
\* (the lifecycle is explored with an empty trace exclusion list and debug
\* off; CallConfigs below ranges over them)
Configs ==
    [ testEnv        : BoolSet,
      traceEnabled   : BoolSet,
      metricsEnabled : BoolSet,
      logExclude     : SUBSET Methods,
      traceExclude   : {{}},
      appDebug       : {FALSE},
      healthcheck    : BoolSet ]

\* the configurations single calls are run under
CallConfigs ==
    [ testEnv        : {TRUE},
      traceEnabled   : BoolSet,
      metricsEnabled : BoolSet,
      logExclude     : SUBSET Methods,
      traceExclude   : SUBSET Methods,
      appDebug       : BoolSet ]

\* ------------------------------------------------------- interceptor chain

\* one step of createInterceptors: the same concern is appended to the unary
\* and to the streaming list
AppendBoth(p, name) ==
    [ unary |-> Append(p.unary, name), stream |-> Append(p.stream, name) ]

createInterceptorsMetricsFirst(c) ==
    LET recov  == [ unary |-> <<"Recovery">>, stream |-> <<"Recovery">> ]
        traced == IF c.traceEnabled THEN AppendBoth(recov, "Tracing") ELSE recov
        metred == IF c.metricsEnabled THEN AppendBoth(traced, "Metrics") ELSE traced
    IN  AppendBoth(metred, "Logging")

createInterceptorsNoRecovery(c) ==
    LET empty  == [ unary |-> <<>>, stream |-> <<>> ]
        traced == IF c.traceEnabled THEN AppendBoth(empty, "Tracing") ELSE empty
        logged == AppendBoth(traced, "Logging")
    IN  IF c.metricsEnabled THEN AppendBoth(logged, "Metrics") ELSE logged

\* createInterceptors: recovery, then tracing if enabled, then the logger,
\* then metrics if enabled
createInterceptors(c) ==
    LET recov  == [ unary |-> <<"Recovery">>, stream |-> <<"Recovery">> ]
        traced == IF c.traceEnabled THEN AppendBoth(recov, "Tracing") ELSE recov
        logged == AppendBoth(traced, "Logging")
    IN  IF c.metricsEnabled THEN AppendBoth(logged, "Metrics") ELSE logged

loggerExclusionsNone(c) == {}

\* the exclusion list handed to the logger interceptor (.Exclude(...))
loggerExclusions(c) == c.logExclude

traceFiltersNone(c) == {}

\* the methods the tracing interceptors filter out: one FullMethodName filter
\* per entry of trace.exclude, combined with filters.None
traceFilters(c) == c.traceExclude

\* the debug flag handed to the panic recovery handler (Handle(AppDebug()))
recoveryDebug(c) == c.appDebug

\* what the interceptors of a server are built with
callSettings(c) ==
    [ logExclude   |-> loggerExclusions(c),
      traceExclude |-> traceFilters(c),
      debug        |-> recoveryDebug(c) ]

\* the application handler: returns normally, returns an error, or panics
HandlerResult(outcome) ==
    [ res |-> outcome, logs |-> 0, spans |-> 0, detail |-> FALSE,
      events |-> <<"handler">> ]

\* the recovery interceptor: a panic of anything it wraps is captured, handed
\* to the panic recovery handler (which logs it) and turned into an Internal
\* error, whose message carries the panic only with debug; anything else
\* passes through
RecoveryWrap(inner, debug) ==
    IF inner.res = "panic"
    THEN [ inner EXCEPT !.res = "internal", !.logs = @ + 1, !.detail = debug ]
    ELSE inner

\* the tracing interceptor: a span around the wrapped call unless the filter
\* rejects the method; the result is passed through
TracingWrap(inner, m, excl) ==
    IF m \in excl THEN inner ELSE [ inner EXCEPT !.spans = @ + 1 ]

\* the logger interceptor: after the wrapped call returned, one record per
\* call, except that an excluded method is logged only when the call failed;
\* a panic unwinds through the interceptor and skips its after-logic
LoggingWrap(inner, m, excl) ==
    IF inner.res = "panic"
    THEN inner
    ELSE IF inner.res # "ok" \/ m \notin excl
         THEN [ inner EXCEPT !.logs = @ + 1 ]
         ELSE inner

\* what one interceptor does around the call it wraps
Wrap(name, inner, m, s) ==
    LET r == CASE name = "Recovery" -> RecoveryWrap(inner, s.debug)
               [] name = "Tracing"  -> TracingWrap(inner, m, s.traceExclude)
               [] name = "Logging"  -> LoggingWrap(inner, m, s.logExclude)
               [] OTHER             -> inner
    IN  [ r EXCEPT !.events = <<"enter " \o name>> \o @ \o <<"leave " \o name>> ]

RECURSIVE RunChainReversed(_, _, _, _, _)
RunChainReversed(chain, i, m, outcome, s) ==
    IF i > Len(chain)
    THEN HandlerResult(outcome)
    ELSE Wrap(chain[Len(chain) + 1 - i],
              RunChainReversed(chain, i + 1, m, outcome, s), m, s)

\* grpc.ChainUnaryInterceptor: the first interceptor is the outermost, the
\* handler is innermost
RECURSIVE RunChain(_, _, _, _, _)
RunChain(chain, i, m, outcome, s) ==
    IF i > Len(chain)
    THEN HandlerResult(outcome)
    ELSE Wrap(chain[i], RunChain(chain, i + 1, m, outcome, s), m, s)

\* ------------------------------------------------------------------ state

VARIABLES
    cfg,          \* p.Config
    app,          \* which server module the application loads
    built,        \* result of the build step: "pending", "ok", "err"
    buildErrs,    \* build-time errors that occurred
    returnedErr,  \* the error returned by the build step ("none" if nil)
    hooked,       \* a lifecycle hook has been appended
    chain,        \* the interceptor lists given to the server
    startPc,      \* OnStart: "idle", "spawned", "returned"
    startErr,     \* the value OnStart returned
    goPc,         \* background task: "none", "begin", "bound", "serving", "done"
    lis,          \* the listener of the background task
    served,       \* listeners Serve has been entered with
    listenCalls,  \* number of real sockets opened or attempted (net.Listen)
    srv,          \* server: "new", "serving", "draining", "stopped"
    stopPc,       \* OnStop: "idle", "draining", "returned"
    stopErr,      \* the value OnStop returned
    ctxDone,      \* the deadline of the stop context has elapsed
    calls,        \* in-flight calls: call id -> method, or "idle"
    lastCall,     \* the last completed call and what the chain did with it
    logs,         \* messages logged by the module
    crashed,      \* the process died of an unrecovered panic
    extServe,     \* result of a serve attempt made after stop returned
    stopInflight, \* number of calls in flight when OnStop was invoked
    probe,        \* a single operation applied to chosen inputs, and its result
    metricsRegistry, \* the shared prometheus registry and the builds run on it
    services      \* what the registry resolved to and what the gRPC server has registered

vars == << cfg, app, built, buildErrs, returnedErr, hooked, chain, startPc,
           startErr, goPc, lis, served, listenCalls, srv, stopPc, stopErr,
           ctxDone, calls, lastCall, logs, crashed, extServe, stopInflight,
           probe, metricsRegistry, services >>

\* the state of the server and of its lifecycle
serverVars == << cfg, app, built, buildErrs, returnedErr, hooked, chain,
                 startPc, startErr, goPc, lis, served, listenCalls, srv,
                 stopPc, stopErr, ctxDone, calls, lastCall, logs, crashed,
                 extServe, stopInflight, services >>

\* everything but the metrics registry
buildVars == << serverVars, probe >>

NoProbe == [ fn |-> "none" ]

NoCall == [ m |-> "none", outcome |-> "none", res |-> "none", logs |-> 0 ]

Init ==
    /\ cfg \in Configs
    /\ app \in {"grpc", "http"}
    /\ app = "http" => ~cfg.healthcheck   \* a key only the gRPC module reads
    /\ built = "pending"
    /\ buildErrs = {}
    /\ returnedErr = "none"
    /\ hooked = FALSE
    /\ chain = [ unary |-> <<>>, stream |-> <<>> ]
    /\ startPc = "idle"
    /\ startErr = "unset"
    /\ goPc = "none"
    /\ lis = "unset"
    /\ served = {}
    /\ listenCalls = 0
    /\ srv = "new"
    /\ stopPc = "idle"
    /\ stopErr = "unset"
    /\ ctxDone = FALSE
    /\ calls = [ i \in CallIds |-> "idle" ]
    /\ lastCall = NoCall
    /\ logs = {}
    /\ crashed = FALSE
    /\ extServe = "none"
    /\ stopInflight = 0
    /\ probe = NoProbe
    /\ metricsRegistry = [ collectors |-> {}, builds |-> 0, panicked |-> FALSE ]
    /\ services = [ regs |-> <<>>, registered |-> <<>> ]

\* ------------------------------------------------------ library behaviour

\* grpc.Server.Serve / echo.Start on a server in state s: a server that has
\* been stopped (gracefully or not) rejects the call, any other server serves
ServeRejected(s) == s \in {"draining", "stopped"}

NoCallInFlight == \A i \in CallIds : calls[i] = "idle"

\* ---------------------------------------------------------- registrations

\* identities of the registered services (gRPC) or handlers (HTTP)
ServiceIds == {"s1", "s2", "s3"}

Registrations == UNION { [1..n -> ServiceIds] : n \in 0..MaxRegs }

HealthService == "grpc.health.v1.Health"

\* the registry's resolution: the registrations in registration order, or a
\* duplicate-registration error when two of them share an identity
ResolveRegistrations(regs) ==
    IF Cardinality({ regs[i] : i \in 1..Len(regs) }) # Len(regs)
    THEN [ err |-> "duplicate registration", list |-> <<>> ]
    ELSE [ err |-> "none", list |-> regs ]

RECURSIVE RegisterAllReversed(_, _, _)
RegisterAllReversed(server, list, i) ==
    IF i > Len(list)
    THEN server
    ELSE RegisterAllReversed(Append(server, list[Len(list) + 1 - i]), list,
                             i + 1)

\* for _, service := range resolved { server.RegisterService(...) }
RECURSIVE RegisterAll(_, _, _)
RegisterAll(server, list, i) ==
    IF i > Len(list)
    THEN server
    ELSE RegisterAll(Append(server, list[i]), list, i + 1)

grpcRegistrationsHookOnError(healthcheck, regs) ==
    LET health   == IF healthcheck THEN <<HealthService>> ELSE <<>>
        resolved == ResolveRegistrations(regs)
    IN  [ err |-> resolved.err, resolveErr |-> resolved.err,
          registered |-> RegisterAll(health, resolved.list, 1),
          hooked |-> TRUE ]

\* NewFxGrpcServer, registrations: the health service if enabled, then the
\* resolved services; a resolution error is returned before any of them is
\* registered and before the lifecycle hook is appended
grpcRegistrations(healthcheck, regs) ==
    LET health   == IF healthcheck THEN <<HealthService>> ELSE <<>>
        resolved == ResolveRegistrations(regs)
    IN  IF resolved.err # "none"
        THEN [ err |-> resolved.err, resolveErr |-> resolved.err,
               registered |-> health, hooked |-> FALSE ]
        ELSE [ err |-> "none", resolveErr |-> "none",
               registered |-> RegisterAll(health, resolved.list, 1),
               hooked |-> TRUE ]

\* what the registry holds when the lifecycle is explored: two services, or
\* the same service registered twice
BuildRegistrations == { <<"s2", "s1">>, <<"s1", "s1">> }

\* ------------------------------------------------------------- gRPC build

\* NewFxGrpcServer: interceptors, factory, registry resolution, lifecycle hook
NewFxGrpcServer ==
    /\ app = "grpc"
    /\ built = "pending"
    /\ chain' = createInterceptors(cfg)
    /\ \E factoryFails \in BoolSet, regs \in BuildRegistrations :
         IF factoryFails
         THEN /\ built' = "err"
              /\ buildErrs' = {"factory"}
              /\ returnedErr' = "factory"
              /\ hooked' = FALSE
              /\ UNCHANGED services
         ELSE LET r == grpcRegistrations(cfg.healthcheck, regs)
              IN  /\ services' = [ regs |-> regs, registered |-> r.registered ]
                  /\ hooked' = r.hooked
                  /\ IF r.err # "none"
                     THEN /\ built' = "err"
                          /\ buildErrs' = {"resolve"}
                          /\ returnedErr' = "resolve"
                     ELSE /\ built' = "ok"
                          /\ buildErrs' = {}
                          /\ returnedErr' = "none"
    /\ UNCHANGED << cfg, app, startPc, startErr, goPc, lis, served,
                    listenCalls, srv, stopPc, stopErr, ctxDone, calls,
                    lastCall, logs, crashed, extServe,
                    stopInflight, probe,
                    metricsRegistry >>

\* -------------------------------------------------------- gRPC lifecycle

GrpcOnStartBlocking ==
    /\ app = "grpc"
    /\ startPc = "spawned"
    /\ goPc = "done"
    /\ startPc' = "returned"
    /\ startErr' = "nil"
    /\ UNCHANGED << cfg, app, built, buildErrs, returnedErr, hooked, chain,
                    goPc, lis, served, listenCalls, srv, stopPc, stopErr,
                    ctxDone, calls, lastCall, logs, crashed, extServe,
                    stopInflight, probe,
                    metricsRegistry, services >>

\* OnStart, first half: the port is read and the serve task is launched
GrpcOnStart ==
    /\ app = "grpc"
    /\ hooked
    /\ ~crashed
    /\ startPc = "idle"
    /\ startPc' = "spawned"
    /\ goPc' = "begin"
    /\ UNCHANGED << cfg, app, built, buildErrs, returnedErr, hooked, chain,
                    startErr, lis, served, listenCalls, srv, stopPc, stopErr,
                    ctxDone, calls, lastCall, logs, crashed, extServe,
                    stopInflight, probe,
                    metricsRegistry, services >>

\* OnStart, second half: return nil
GrpcOnStartReturn ==
    /\ app = "grpc"
    /\ ~crashed
    /\ startPc = "spawned"
    /\ startPc' = "returned"
    /\ startErr' = "nil"
    /\ UNCHANGED << cfg, app, built, buildErrs, returnedErr, hooked, chain,
                    goPc, lis, served, listenCalls, srv, stopPc, stopErr,
                    ctxDone, calls, lastCall, logs, crashed, extServe,
                    stopInflight, probe,
                    metricsRegistry, services >>

GrpcGoListenAlwaysTcp ==
    /\ app = "grpc"
    /\ ~crashed
    /\ goPc = "begin"
    /\ goPc' = "bound"
    /\ listenCalls' = listenCalls + 1
    /\ lis' = "tcp"
    /\ UNCHANGED << cfg, app, built, buildErrs, returnedErr, hooked, chain,
                    startPc, startErr, served, srv, stopPc, stopErr, ctxDone,
                    calls, lastCall, logs, crashed, extServe,
                    stopInflight, probe,
                    metricsRegistry, services >>

\* the serve task, first half: choose the listener; a bind failure is logged
\* and the task goes on
GrpcGoListen ==
    /\ app = "grpc"
    /\ ~crashed
    /\ goPc = "begin"
    /\ goPc' = "bound"
    /\ IF cfg.testEnv
       THEN /\ lis' = "bufconn"
            /\ UNCHANGED << listenCalls, logs >>
       ELSE /\ listenCalls' = listenCalls + 1
            /\ \E bound \in BoolSet :
                 IF bound
                 THEN lis' = "tcp" /\ UNCHANGED logs
                 ELSE /\ lis' = "nil"
                      /\ logs' = logs \cup {"failed to listen for grpc server"}
    /\ UNCHANGED << cfg, app, built, buildErrs, returnedErr, hooked, chain,
                    startPc, startErr, served, srv, stopPc, stopErr, ctxDone,
                    calls, lastCall, crashed, extServe,
                    stopInflight, probe,
                    metricsRegistry, services >>

\* the serve task, second half: grpcServer.Serve(lis).  Serve on a nil
\* listener dereferences it and the process dies; Serve on a stopped server
\* returns ErrServerStopped, which is logged; otherwise the server serves
GrpcGoServe ==
    /\ app = "grpc"
    /\ ~crashed
    /\ goPc = "bound"
    /\ served' = served \cup {lis}
    /\ IF lis = "nil"
       THEN /\ crashed' = TRUE
            /\ goPc' = "done"
            /\ UNCHANGED << srv, logs >>
       ELSE IF ServeRejected(srv)
       THEN /\ goPc' = "done"
            /\ logs' = logs \cup {"failed to serve grpc server"}
            /\ UNCHANGED << srv, crashed >>
       ELSE /\ goPc' = "serving"
            /\ srv' = "serving"
            /\ UNCHANGED << logs, crashed >>
    /\ UNCHANGED << cfg, app, built, buildErrs, returnedErr, hooked, chain,
                    startPc, startErr, lis, listenCalls, stopPc, stopErr,
                    ctxDone, calls, lastCall, extServe,
                    stopInflight, probe,
                    metricsRegistry, services >>

\* Serve returns nil once the server has been stopped
GrpcGoServeReturn ==
    /\ app = "grpc"
    /\ ~crashed
    /\ goPc = "serving"
    /\ srv = "stopped"
    /\ goPc' = "done"
    /\ UNCHANGED << cfg, app, built, buildErrs, returnedErr, hooked, chain,
                    startPc, startErr, lis, served, listenCalls, srv, stopPc,
                    stopErr, ctxDone, calls, lastCall, logs, crashed,
                    extServe,
                    stopInflight, probe,
                    metricsRegistry, services >>

GrpcOnStopNoop ==
    /\ app = "grpc"
    /\ hooked
    /\ ~crashed
    /\ startPc = "returned"
    /\ stopPc = "idle"
    /\ stopPc' = "returned"
    /\ stopErr' = "nil"
    /\ stopInflight' = Cardinality({ i \in CallIds : calls[i] # "idle" })
    /\ UNCHANGED << cfg, app, built, buildErrs, returnedErr, hooked, chain,
                    startPc, startErr, goPc, lis, served, listenCalls, srv,
                    ctxDone, calls, lastCall, logs, crashed, extServe, probe,
                    metricsRegistry, services >>

\* OnStop: nothing in test mode; otherwise GracefulStop, whose first half
\* closes the listeners so that no new call is accepted
GrpcOnStop ==
    /\ app = "grpc"
    /\ hooked
    /\ ~crashed
    /\ startPc = "returned"
    /\ stopPc = "idle"
    /\ IF cfg.testEnv
       THEN /\ stopPc' = "returned"
            /\ stopErr' = "nil"
            /\ UNCHANGED srv
       ELSE /\ stopPc' = "draining"
            /\ srv' = "draining"
            /\ UNCHANGED stopErr
    /\ stopInflight' = Cardinality({ i \in CallIds : calls[i] # "idle" })
    /\ UNCHANGED << cfg, app, built, buildErrs, returnedErr, hooked, chain,
                    startPc, startErr, goPc, lis, served, listenCalls,
                    ctxDone, calls, lastCall, logs, crashed, extServe, probe,
                    metricsRegistry, services >>

GrpcGracefulStopDoneNoWait ==
    /\ app = "grpc"
    /\ ~crashed
    /\ stopPc = "draining"
    /\ srv' = "stopped"
    /\ stopPc' = "returned"
    /\ stopErr' = "nil"
    /\ UNCHANGED << cfg, app, built, buildErrs, returnedErr, hooked, chain,
                    startPc, startErr, goPc, lis, served, listenCalls,
                    ctxDone, calls, lastCall, logs, crashed, extServe,
                    stopInflight, probe,
                    metricsRegistry, services >>

\* GracefulStop, second half: it returns when no call is in flight any more
\* (the stop context is not consulted), and OnStop returns nil
GrpcGracefulStopDone ==
    /\ app = "grpc"
    /\ ~crashed
    /\ stopPc = "draining"
    /\ NoCallInFlight
    /\ srv' = "stopped"
    /\ stopPc' = "returned"
    /\ stopErr' = "nil"
    /\ UNCHANGED << cfg, app, built, buildErrs, returnedErr, hooked, chain,
                    startPc, startErr, goPc, lis, served, listenCalls,
                    ctxDone, calls, lastCall, logs, crashed, extServe,
                    stopInflight, probe,
                    metricsRegistry, services >>

\* ------------------------------------------------------------------ calls

\* the transport accepts a call while the server is serving
BeginCall ==
    /\ ~crashed
    /\ srv = "serving"
    /\ \E i \in CallIds, m \in Methods :
         /\ calls[i] = "idle"
         /\ calls' = [ calls EXCEPT ![i] = m ]
    /\ UNCHANGED << cfg, app, built, buildErrs, returnedErr, hooked, chain,
                    startPc, startErr, goPc, lis, served, listenCalls, srv,
                    stopPc, stopErr, ctxDone, lastCall, logs, crashed,
                    extServe,
                    stopInflight, probe,
                    metricsRegistry, services >>

\* a gRPC call runs through the unary interceptor chain down to its handler
\* and back; a panic nothing recovered kills the process
GrpcCompleteCall ==
    /\ app = "grpc"
    /\ ~crashed
    /\ \E i \in CallIds, outcome \in Outcomes :
         /\ calls[i] # "idle"
         /\ LET r == RunChain(chain.unary, 1, calls[i], outcome,
                              callSettings(cfg))
            IN  /\ lastCall' = [ m |-> calls[i], outcome |-> outcome,
                                 res |-> r.res, logs |-> r.logs ]
                /\ crashed' = (r.res = "panic")
         /\ calls' = [ calls EXCEPT ![i] = "idle" ]
    /\ UNCHANGED << cfg, app, built, buildErrs, returnedErr, hooked, chain,
                    startPc, startErr, goPc, lis, served, listenCalls, srv,
                    stopPc, stopErr, ctxDone, logs, extServe,
                    stopInflight, probe,
                    metricsRegistry, services >>

\* an HTTP request completes
HttpCompleteCall ==
    /\ app = "http"
    /\ ~crashed
    /\ \E i \in CallIds :
         /\ calls[i] # "idle"
         /\ calls' = [ calls EXCEPT ![i] = "idle" ]
    /\ UNCHANGED << cfg, app, built, buildErrs, returnedErr, hooked, chain,
                    startPc, startErr, goPc, lis, served, listenCalls, srv,
                    stopPc, stopErr, ctxDone, lastCall, logs, crashed,
                    extServe,
                    stopInflight, probe,
                    metricsRegistry, services >>

\* -------------------------------------------------------------- HTTP build

ResolveSteps == {"handlers groups", "middlewares", "handlers"}

\* withRegisteredResources: each failed resolution is logged on the server's
\* logger and the build goes on with what was resolved
withRegisteredResources(failed) ==
    { "cannot resolve router " \o f : f \in failed }

\* NewFxHttpServer: factory, default middlewares, registered resources,
\* lifecycle hook
NewFxHttpServer ==
    /\ app = "http"
    /\ built = "pending"
    /\ \E factoryFails \in BoolSet, failed \in SUBSET ResolveSteps :
         IF factoryFails
         THEN /\ built' = "err"
              /\ buildErrs' = {"factory"}
              /\ returnedErr' = "failed to create http server"
              /\ hooked' = FALSE
              /\ UNCHANGED logs
         ELSE /\ logs' = logs \cup withRegisteredResources(failed)
              /\ buildErrs' = failed
              /\ returnedErr' = "none"
              /\ built' = "ok"
              /\ hooked' = TRUE
    /\ UNCHANGED << cfg, app, chain, startPc, startErr, goPc, lis, served,
                    listenCalls, srv, stopPc, stopErr, ctxDone, calls,
                    lastCall, crashed, extServe,
                    stopInflight, probe,
                    metricsRegistry, services >>

\* ---------------------------------------------------------- HTTP lifecycle

\* OnStart, first half: outside of test mode the server is started in a
\* background task
HttpOnStart ==
    /\ app = "http"
    /\ hooked
    /\ startPc = "idle"
    /\ startPc' = "spawned"
    /\ goPc' = IF cfg.testEnv THEN goPc ELSE "begin"
    /\ UNCHANGED << cfg, app, built, buildErrs, returnedErr, hooked, chain,
                    startErr, lis, served, listenCalls, srv, stopPc, stopErr,
                    ctxDone, calls, lastCall, logs, crashed, extServe,
                    stopInflight, probe,
                    metricsRegistry, services >>

\* OnStart, second half: return nil
HttpOnStartReturn ==
    /\ app = "http"
    /\ startPc = "spawned"
    /\ startPc' = "returned"
    /\ startErr' = "nil"
    /\ UNCHANGED << cfg, app, built, buildErrs, returnedErr, hooked, chain,
                    goPc, lis, served, listenCalls, srv, stopPc, stopErr,
                    ctxDone, calls, lastCall, logs, crashed, extServe,
                    stopInflight, probe,
                    metricsRegistry, services >>

\* the background task: httpServer.Start binds the address and serves; its
\* error (bind failure, server already closed) is dropped
HttpGoStart ==
    /\ app = "http"
    /\ goPc = "begin"
    /\ listenCalls' = listenCalls + 1
    /\ \E bound \in BoolSet :
         IF ~bound
         THEN /\ lis' = "nil"
              /\ goPc' = "done"
              /\ UNCHANGED << srv, served >>
         ELSE /\ lis' = "tcp"
              /\ served' = served \cup {"tcp"}
              /\ IF ServeRejected(srv)
                 THEN goPc' = "done" /\ UNCHANGED srv
                 ELSE goPc' = "serving" /\ srv' = "serving"
    /\ UNCHANGED << cfg, app, built, buildErrs, returnedErr, hooked, chain,
                    startPc, startErr, stopPc, stopErr, ctxDone, calls,
                    lastCall, logs, crashed, extServe,
                    stopInflight, probe,
                    metricsRegistry, services >>

\* Start returns ErrServerClosed as soon as the server is shut down
HttpGoStartReturn ==
    /\ app = "http"
    /\ goPc = "serving"
    /\ ServeRejected(srv)
    /\ goPc' = "done"
    /\ UNCHANGED << cfg, app, built, buildErrs, returnedErr, hooked, chain,
                    startPc, startErr, lis, served, listenCalls, srv, stopPc,
                    stopErr, ctxDone, calls, lastCall, logs, crashed,
                    extServe,
                    stopInflight, probe,
                    metricsRegistry, services >>

\* OnStop: nothing in test mode; otherwise Shutdown(ctx), whose first half
\* closes the listeners
HttpOnStop ==
    /\ app = "http"
    /\ hooked
    /\ startPc = "returned"
    /\ stopPc = "idle"
    /\ IF cfg.testEnv
       THEN /\ stopPc' = "returned"
            /\ stopErr' = "nil"
            /\ UNCHANGED srv
       ELSE /\ stopPc' = "draining"
            /\ srv' = "draining"
            /\ UNCHANGED stopErr
    /\ stopInflight' = Cardinality({ i \in CallIds : calls[i] # "idle" })
    /\ UNCHANGED << cfg, app, built, buildErrs, returnedErr, hooked, chain,
                    startPc, startErr, goPc, lis, served, listenCalls,
                    ctxDone, calls, lastCall, logs, crashed, extServe, probe,
                    metricsRegistry, services >>

\* Shutdown(ctx), second half: it returns nil when no request is in flight,
\* or the context's error when the context is done
HttpShutdownDone ==
    /\ app = "http"
    /\ stopPc = "draining"
    /\ \/ NoCallInFlight /\ stopErr' = "nil"
       \/ ctxDone /\ ~NoCallInFlight /\ stopErr' = "context deadline exceeded"
    /\ srv' = "stopped"
    /\ stopPc' = "returned"
    /\ UNCHANGED << cfg, app, built, buildErrs, returnedErr, hooked, chain,
                    startPc, startErr, goPc, lis, served, listenCalls,
                    ctxDone, calls, lastCall, logs, crashed, extServe,
                    stopInflight, probe,
                    metricsRegistry, services >>

\* ------------------------------------------------------------- environment

\* the deadline of the context handed to OnStop elapses
DeadlineElapse ==
    /\ ~crashed
    /\ stopPc = "draining"
    /\ ~ctxDone
    /\ ctxDone' = TRUE
    /\ UNCHANGED << cfg, app, built, buildErrs, returnedErr, hooked, chain,
                    startPc, startErr, goPc, lis, served, listenCalls, srv,
                    stopPc, stopErr, calls, lastCall, logs, crashed,
                    extServe,
                    stopInflight, probe,
                    metricsRegistry, services >>

\* the built server is exposed to the application, which may call Serve on it
\* again after the stop hook returned
ServeAgain ==
    /\ ~crashed
    /\ built = "ok"
    /\ stopPc = "returned"
    /\ extServe = "none"
    /\ IF ServeRejected(srv)
       THEN extServe' = "rejected" /\ UNCHANGED srv
       ELSE extServe' = "accepted" /\ srv' = "serving"
    /\ UNCHANGED << cfg, app, built, buildErrs, returnedErr, hooked, chain,
                    startPc, startErr, goPc, lis, served, listenCalls,
                    stopPc, stopErr, ctxDone, calls, lastCall, logs,
                    crashed,
                    stopInflight, probe,
                    metricsRegistry, services >>

\* ----------------------------------------------------------- specification

Next ==
    \/ NewFxGrpcServer
    \/ GrpcOnStart
    \/ GrpcOnStartReturn
    \/ GrpcGoListen
    \/ GrpcGoServe
    \/ GrpcGoServeReturn
    \/ GrpcOnStop
    \/ GrpcGracefulStopDone
    \/ GrpcCompleteCall
    \/ NewFxHttpServer
    \/ HttpOnStart
    \/ HttpOnStartReturn
    \/ HttpGoStart
    \/ HttpGoStartReturn
    \/ HttpOnStop
    \/ HttpShutdownDone
    \/ HttpCompleteCall
    \/ BeginCall
    \/ DeadlineElapse
    \/ ServeAgain

Spec == Init /\ [][Next]_vars

\* the scheduler runs every task that can run and timers fire; whether a call
\* ever completes is up to its handler and its client
FairSpec ==
    /\ Spec
    /\ WF_vars(GrpcOnStartReturn)
    /\ WF_vars(GrpcGoListen)
    /\ WF_vars(GrpcGoServe)
    /\ WF_vars(GrpcGoServeReturn)
    /\ WF_vars(GrpcGracefulStopDone)
    /\ WF_vars(HttpOnStartReturn)
    /\ WF_vars(HttpGoStart)
    /\ WF_vars(HttpGoStartReturn)
    /\ WF_vars(HttpShutdownDone)
    /\ WF_vars(DeadlineElapse)

\* ------------------------------------------------------- single operations

\* the specification below applies one operation of the build or of the call
\* path at a time to inputs drawn from bounded sets, on a server left as built

PureInit ==
    /\ Init
    /\ app = "grpc"
    /\ cfg = [ testEnv |-> TRUE, traceEnabled |-> FALSE,
               metricsEnabled |-> FALSE, logExclude |-> {},
               traceExclude |-> {}, appDebug |-> FALSE,
               healthcheck |-> FALSE ]

\* one unary gRPC call through the chain createInterceptors builds
UnaryCall ==
    /\ probe = NoProbe
    /\ \E c \in CallConfigs, m \in Methods, outcome \in Outcomes :
         probe' = [ fn |-> "UnaryCall", c |-> c, m |-> m, outcome |-> outcome,
                    chain |-> createInterceptors(c).unary,
                    out |-> RunChain(createInterceptors(c).unary, 1, m,
                                     outcome, callSettings(c)) ]
    /\ UNCHANGED << serverVars, metricsRegistry >>

\* the error-related configuration of the HTTP server
HttpErrorConfigs ==
    [ appDebug : BoolSet, errorsObfuscate : BoolSet, errorsStack : BoolSet ]

errorHandlerOptionsConfigOnly(c) ==
    [ obfuscate |-> c.errorsObfuscate, stack |-> c.errorsStack ]

\* the arguments NewFxHttpServer gives to JsonErrorHandler
errorHandlerOptions(c) ==
    [ obfuscate |-> (c.errorsObfuscate \/ ~c.appDebug),
      stack     |-> (c.errorsStack \/ c.appDebug) ]

\* the JSON error handler: an obfuscated response carries the generic status
\* text only; otherwise it carries the error's message, and its stack if asked
JsonErrorHandler(obfuscate, stack) ==
    [ res |-> "internal", detail |-> ~obfuscate,
      stack |-> (stack /\ ~obfuscate) ]

\* a panic of an HTTP handler: recovered (WithRecovery(true)) and rendered by
\* the error handler
HttpFault ==
    /\ probe = NoProbe
    /\ \E c \in HttpErrorConfigs :
         probe' = [ fn |-> "HttpFault", c |-> c,
                    out |-> JsonErrorHandler(errorHandlerOptions(c).obfuscate,
                                             errorHandlerOptions(c).stack) ]
    /\ UNCHANGED << serverVars, metricsRegistry >>

\* call names and exclusion rules, as strings of characters
NameChars == {"/", "a"}

Names == UNION { [1..n -> NameChars] : n \in 0..MaxNameLen }

\* exclusion lists of at most two rules
RuleSets == {{}} \cup { {a, b} : a \in Names, b \in Names }

\* strings.HasPrefix
HasPrefix(str, prefix) ==
    /\ Len(prefix) <= Len(str)
    /\ SubSeq(str, 1, Len(prefix)) = prefix

\* filters.FullMethodName(n): the call's full method is n
FullMethodName(n, name) == name = n

\* filters.None(fs...): no filter of the list accepts the call
FiltersNone(rules, name) == ~(\E n \in rules : FullMethodName(n, name))

GrpcTraceExcludedByPrefix(name, rules) ==
    \E n \in rules : HasPrefix(name, n)

\* a gRPC call is left untraced when the interceptor filter, filters.None
\* over one FullMethodName filter per configured method, rejects it
GrpcTraceExcluded(name, rules) == ~FiltersNone(rules, name)

\* the logger interceptor's exclusion test: the call's full method is one of
\* the methods given to Exclude
GrpcLogExcluded(name, rules) == name \in rules

\* the HTTP middlewares' exclusion test on RequestUriPrefixesToExclude: the
\* request URI starts with one of the configured prefixes
HttpUriExcluded(uri, prefixes) == \E q \in prefixes : HasPrefix(uri, q)

ExclusionKinds == {"grpc trace", "grpc log", "http trace", "http log"}

\* the exclusion decision a concern takes for one call
IsExcluded ==
    /\ probe = NoProbe
    /\ \E kind \in ExclusionKinds, name \in Names, rules \in RuleSets :
         probe' = [ fn |-> "IsExcluded", kind |-> kind, name |-> name,
                    rules |-> rules,
                    out |-> CASE kind = "grpc trace" ->
                                    GrpcTraceExcluded(name, rules)
                              [] kind = "grpc log" ->
                                    GrpcLogExcluded(name, rules)
                              [] OTHER -> HttpUriExcluded(name, rules) ]
    /\ UNCHANGED << serverVars, metricsRegistry >>

\* withRegisteredResources, handlers: a resolution error is logged, and the
\* resolved handlers are added in order
httpRegistrations(regs) ==
    LET resolved == ResolveRegistrations(regs)
    IN  [ err |-> "none", resolveErr |-> resolved.err,
          registered |-> RegisterAll(<<>>, resolved.list, 1),
          hooked |-> TRUE ]

\* the registrations step of a build
Register ==
    /\ probe = NoProbe
    /\ \E regs \in Registrations :
         \/ \E healthcheck \in BoolSet :
               probe' = [ fn |-> "Register", kind |-> "grpc",
                          healthcheck |-> healthcheck, regs |-> regs,
                          out |-> grpcRegistrations(healthcheck, regs) ]
         \/ probe' = [ fn |-> "Register", kind |-> "http",
                       healthcheck |-> FALSE, regs |-> regs,
                       out |-> httpRegistrations(regs) ]
    /\ UNCHANGED << serverVars, metricsRegistry >>

\* the kinds of middleware registration: global, global pre-routing, and
\* the ones attached to handlers or groups
MiddlewareKinds == {"GlobalUse", "GlobalPre", "Attached"}

MiddlewareFlags == [ traceEnabled : BoolSet, metricsEnabled : BoolSet ]

\* the middlewares resolved from the registry, in resolution order
ResolvedMiddlewares ==
    UNION { [1..n -> MiddlewareKinds] : n \in 0..MaxMiddlewares }

\* echo.New(): nothing applied on either stage
NewEcho == [ pre |-> <<>>, use |-> <<>>, routes |-> <<>>, ops |-> <<>> ]

\* Echo.Use: one more middleware on the global stage
EchoUse(e, name) ==
    [ e EXCEPT !.use = Append(@, name), !.ops = Append(@, "Use") ]

\* Echo.Pre: one more middleware on the pre-routing stage
EchoPre(e, name) ==
    [ e EXCEPT !.pre = Append(@, name), !.ops = Append(@, "Pre") ]

\* Echo.Group: a group under a prefix
EchoGroup(e) == [ e EXCEPT !.ops = Append(@, "Group") ]

\* Group.Add: a route of group g
GroupAdd(e, g, h) ==
    [ e EXCEPT !.routes = Append(@, << "group", g, h >>),
               !.ops = Append(@, "GroupAdd") ]

\* Echo.Add: a route of the server
EchoAdd(e, h) ==
    [ e EXCEPT !.routes = Append(@, << "handler", 0, h >>),
               !.ops = Append(@, "Add") ]

withDefaultMiddlewaresLoggerFirst(e, c) ==
    LET e1 == EchoUse(EchoUse(e, "request-id"), "Logging")
        e2 == IF c.traceEnabled THEN EchoUse(e1, "Tracing") ELSE e1
    IN  IF c.metricsEnabled THEN EchoUse(e2, "Metrics") ELSE e2

\* withDefaultMiddlewares: request id, tracer when enabled, logger, metrics
\* when enabled, each one applied with Use
withDefaultMiddlewares(e, c) ==
    LET e1 == EchoUse(e, "request-id")
        e2 == IF c.traceEnabled THEN EchoUse(e1, "Tracing") ELSE e1
        e3 == EchoUse(e2, "Logging")
    IN  IF c.metricsEnabled THEN EchoUse(e3, "Metrics") ELSE e3

RECURSIVE withRegisteredMiddlewaresAllUse(_, _, _)
withRegisteredMiddlewaresAllUse(e, mws, i) ==
    IF i > Len(mws) THEN e
    ELSE withRegisteredMiddlewaresAllUse(EchoUse(e, << "registered", i >>),
                                         mws, i + 1)

\* withRegisteredResources, middlewares: each resolved middleware in turn goes
\* to Pre when its kind is GlobalPre and to Use when its kind is GlobalUse
RECURSIVE withRegisteredMiddlewares(_, _, _)
withRegisteredMiddlewares(e, mws, i) ==
    IF i > Len(mws) THEN e
    ELSE LET m  == << "registered", i >>
             e1 == IF mws[i] = "GlobalPre" THEN EchoPre(e, m) ELSE e
             e2 == IF mws[i] = "GlobalUse" THEN EchoUse(e1, m) ELSE e1
         IN  withRegisteredMiddlewares(e2, mws, i + 1)

\* the handlers of group g, added in order
RECURSIVE withGroupHandlers(_, _, _, _)
withGroupHandlers(e, g, n, h) ==
    IF h > n THEN e
    ELSE withGroupHandlers(GroupAdd(e, g, h), g, n, h + 1)

\* withRegisteredResources, handlers groups: each resolved group in turn is
\* created and given its handlers (groups[g] is the number of handlers of
\* group g)
RECURSIVE withRegisteredGroups(_, _, _)
withRegisteredGroups(e, groups, g) ==
    IF g > Len(groups) THEN e
    ELSE withRegisteredGroups(
             withGroupHandlers(EchoGroup(e), g, groups[g], 1), groups, g + 1)

\* withRegisteredResources, handlers: each resolved handler in turn is added
RECURSIVE withRegisteredHandlers(_, _, _)
withRegisteredHandlers(e, n, h) ==
    IF h > n THEN e
    ELSE withRegisteredHandlers(EchoAdd(e, h), n, h + 1)

\* the resolved handlers groups, each one the number of its handlers
ResolvedGroups == UNION { [1..n -> 0..MaxRegs] : n \in 0..MaxGroups }

\* withRegisteredResources on a server: the groups, then the middlewares,
\* then the handlers
HttpResources ==
    /\ probe = NoProbe
    /\ \E groups \in ResolvedGroups, mws \in ResolvedMiddlewares,
          handlers \in 0..MaxRegs :
         probe' = [ fn       |-> "HttpResources",
                    groups   |-> groups,
                    mws      |-> mws,
                    handlers |-> handlers,
                    echo     |-> withRegisteredHandlers(
                                     withRegisteredMiddlewares(
                                         withRegisteredGroups(NewEcho, groups, 1),
                                         mws, 1),
                                     handlers, 1) ]
    /\ UNCHANGED << serverVars, metricsRegistry >>

\* NewFxHttpServer, middlewares: the defaults, then the registered resources
HttpMiddlewares ==
    /\ probe = NoProbe
    /\ \E c \in MiddlewareFlags, mws \in ResolvedMiddlewares :
         probe' = [ fn   |-> "HttpMiddlewares",
                    c    |-> c,
                    mws  |-> mws,
                    echo |-> withRegisteredMiddlewares(
                                 withDefaultMiddlewares(NewEcho, c), mws, 1) ]
    /\ UNCHANGED << serverVars, metricsRegistry >>

\* response codes of the success, client-error and server-error classes
HttpStatuses == {200, 204, 400, 404, 500, 503}

LoggerConfigs == [ levelFromResponse : BoolSet ]

requestLoggerConfigNeverFromResponse(c) ==
    [ LogLevelFromResponseOrErrorCode |-> FALSE ]

\* the configuration the request logger middleware is built with:
\* modules.http.server.log.level_from_response is handed on as is
requestLoggerConfig(c) ==
    [ LogLevelFromResponseOrErrorCode |-> c.levelFromResponse ]

\* the severity for a response or error code
LevelFromCode(code) ==
    IF code >= 500 THEN "error"
    ELSE IF code >= 400 THEN "warn"
    ELSE "info"

\* the request logger middleware: the severity of the record follows the
\* code only when LogLevelFromResponseOrErrorCode is set; without it a
\* returned error is logged as an error and anything else as informational
RequestLoggerLevel(config, code, returnedError) ==
    IF config.LogLevelFromResponseOrErrorCode
    THEN LevelFromCode(code)
    ELSE IF returnedError THEN "error" ELSE "info"

\* one HTTP call through the request logger middleware
HttpLogRecord ==
    /\ probe = NoProbe
    /\ \E c \in LoggerConfigs, code \in HttpStatuses, returnedError \in BoolSet :
         probe' = [ fn    |-> "HttpLogRecord",
                    c     |-> c,
                    code  |-> code,
                    returnedError |-> returnedError,
                    level |-> RequestLoggerLevel(requestLoggerConfig(c),
                                                 code, returnedError) ]
    /\ UNCHANGED << serverVars, metricsRegistry >>

\* configured names, as strings of characters; the empty one is "unset"
IdChars == {"a", "-", "_"}

Ids == UNION { [1..n -> IdChars] : n \in 0..MaxIdLen }

\* application names
AppNames == { <<"a">>, <<"a", "-", "a">>, <<"-", "_">> }

GrpcModuleName == <<"g", "r", "p", "c", "s", "e", "r", "v", "e", "r">>

HttpModuleName == <<"h", "t", "t", "p", "s", "e", "r", "v", "e", "r">>

\* strings.ReplaceAll(str, old, new) for one-character old and new
ReplaceAll(str, old, new) ==
    [ i \in 1..Len(str) |-> IF str[i] = old THEN new ELSE str[i] ]

\* the configured name, or the default when it is unset
OrDefault(configured, default) ==
    IF configured = <<>> THEN default ELSE configured

grpcMetricsNamesRaw(namespace, subsystem, appName) ==
    [ namespace |-> <<>>,
      subsystem |-> OrDefault(namespace, appName) \o <<"_">>
                        \o OrDefault(subsystem, GrpcModuleName) ]

\* createInterceptors, metrics naming: the collectors get one subsystem made
\* of namespace and subsystem, and no namespace
grpcMetricsNames(namespace, subsystem, appName) ==
    [ namespace |-> <<>>,
      subsystem |-> ReplaceAll(OrDefault(namespace, appName) \o <<"_">>
                                   \o OrDefault(subsystem, GrpcModuleName),
                               "-", "_") ]

\* withDefaultMiddlewares, metrics naming: namespace and subsystem are
\* normalised each on its own
httpMetricsNames(namespace, subsystem, appName) ==
    [ namespace |-> ReplaceAll(OrDefault(namespace, appName), "-", "_"),
      subsystem |-> ReplaceAll(OrDefault(subsystem, HttpModuleName), "-", "_") ]

\* the names the collectors of a server with metrics enabled are made with
MetricsNames ==
    /\ probe = NoProbe
    /\ \E kind \in {"grpc", "http"}, namespace \in Ids, subsystem \in Ids,
          appName \in AppNames :
         probe' = [ fn        |-> "MetricsNames",
                    kind      |-> kind,
                    namespace |-> namespace,
                    subsystem |-> subsystem,
                    appName   |-> appName,
                    names     |->
                        IF kind = "grpc"
                        THEN grpcMetricsNames(namespace, subsystem, appName)
                        ELSE httpMetricsNames(namespace, subsystem, appName) ]
    /\ UNCHANGED << serverVars, metricsRegistry >>

\* configured bucket lists, as strings of characters
BucketChars == {"1", ".", ",", " ", "x"}

BucketStrings == UNION { [1..n -> BucketChars] : n \in 0..MaxBucketsLen }

\* a number, as its digits read as an integer and the count of the digits
\* that follow the point: 1.1 is [ digits |-> 11, scale |-> 1 ]
Number(digits, scale) == [ digits |-> digits, scale |-> scale ]

\* prometheus.DefBuckets: .005, .01, .025, .05, .1, .25, .5, 1, 2.5, 5, 10
DefBuckets ==
    << Number(5, 3), Number(1, 2), Number(25, 3), Number(5, 2), Number(1, 1),
       Number(25, 2), Number(5, 1), Number(1, 0), Number(25, 1), Number(5, 0),
       Number(10, 0) >>

\* strings.ReplaceAll(str, " ", "")
RemoveSpaces(str) == SelectSeq(str, LAMBDA ch : ch # " ")

\* strings.Split(str, ","): the pieces between the commas, empty ones
\* included, one more than there are commas
RECURSIVE SplitFrom(_, _, _)
SplitFrom(str, i, piece) ==
    IF i > Len(str) THEN << piece >>
    ELSE IF str[i] = ","
    THEN << piece >> \o SplitFrom(str, i + 1, <<>>)
    ELSE SplitFrom(str, i + 1, Append(piece, str[i]))

Split(str) == SplitFrom(str, 1, <<>>)

\* strconv.ParseFloat on a piece: digits with at most one point and at least
\* one digit give a number, anything else an error
ParseFloat(piece) ==
    LET points == { i \in 1..Len(piece) : piece[i] = "." }
        digits == SelectSeq(piece, LAMBDA ch : ch = "1")
        value[n \in 0..Len(digits)] ==
            IF n = 0 THEN 0 ELSE value[n - 1] * 10 + 1
    IN  IF /\ \A i \in 1..Len(piece) : piece[i] \in {"1", "."}
           /\ Cardinality(points) <= 1
           /\ Len(digits) >= 1
        THEN [ err |-> FALSE,
               f   |-> Number(value[Len(digits)],
                              IF points = {} THEN 0
                              ELSE Len(piece) - (CHOOSE i \in points : TRUE)) ]
        ELSE [ err |-> TRUE, f |-> Number(0, 0) ]

\* the loop over the pieces: the ones that parse are appended
RECURSIVE ParsedBuckets(_, _, _)
ParsedBuckets(pieces, i, buckets) ==
    IF i > Len(pieces) THEN buckets
    ELSE LET r == ParseFloat(pieces[i])
         IN  ParsedBuckets(pieces, i + 1,
                           IF r.err THEN buckets ELSE Append(buckets, r.f))

grpcSrvMetricsBucketsNoDefault(bucketsConfig) ==
    IF bucketsConfig # <<>>
    THEN ParsedBuckets(Split(RemoveSpaces(bucketsConfig)), 1, <<>>)
    ELSE <<>>

\* createInterceptors, metrics buckets: the configured ones that parse, or
\* the default ones when there is none
grpcSrvMetricsBuckets(bucketsConfig) ==
    LET parsed == IF bucketsConfig # <<>>
                  THEN ParsedBuckets(Split(RemoveSpaces(bucketsConfig)), 1,
                                     <<>>)
                  ELSE <<>>
    IN  IF Len(parsed) = 0 THEN DefBuckets ELSE parsed

\* the bucket list the metrics collector of a build is made with
MetricsBuckets ==
    /\ probe = NoProbe
    /\ \E bucketsConfig \in BucketStrings :
         probe' = [ fn            |-> "MetricsBuckets",
                    bucketsConfig |-> bucketsConfig,
                    buckets       |-> grpcSrvMetricsBuckets(bucketsConfig) ]
    /\ UNCHANGED << serverVars, metricsRegistry >>

GrpcDefaultPort == 50051

HttpDefaultPort == 8080

DefaultBufconnSize == 1024 * 1024

\* an integer setting: absent from the configuration, or present with a value
IntSettings ==
    { [ set |-> FALSE, value |-> 0 ] }
        \cup [ set : {TRUE},
               value : {0, 1, 80, 4096, 8080, 50051, 65535, 1024 * 1024} ]

\* Config.GetInt: the value of the key, 0 when the key is absent
GetInt(setting) == IF setting.set THEN setting.value ELSE 0

DefaultIfZeroAlways(configured, default) == default

\* if v == 0 { v = Default }
DefaultIfZero(configured, default) ==
    IF configured = 0 THEN default ELSE configured

\* OnStart of the gRPC module: the port net.Listen is given
grpcPort(setting) == DefaultIfZero(GetInt(setting), GrpcDefaultPort)

\* OnStart of the HTTP module: the port Start is given
httpPort(setting) == DefaultIfZero(GetInt(setting), HttpDefaultPort)

\* NewFxGrpcBufconnListener: the size of the in-memory listener's buffer
bufconnSize(setting) == DefaultIfZero(GetInt(setting), DefaultBufconnSize)

ListenerKeys ==
    { "modules.grpc.server.port", "modules.http.server.port",
      "modules.grpc.server.test.bufconn.size" }

\* what a listener is made with, for a value of its configuration key
ListenerSetting ==
    /\ probe = NoProbe
    /\ \E key \in ListenerKeys, setting \in IntSettings :
         probe' = [ fn      |-> "ListenerSetting",
                    key     |-> key,
                    setting |-> setting,
                    used    |->
                        CASE key = "modules.grpc.server.port" ->
                                 grpcPort(setting)
                          [] key = "modules.http.server.port" ->
                                 httpPort(setting)
                          [] OTHER -> bufconnSize(setting) ]
    /\ UNCHANGED << serverVars, metricsRegistry >>

GrpcServerMetrics == "grpc_server_handled_total"

\* Registry.MustRegister: a collector whose descriptors are already
\* registered makes it panic
MustRegister(reg, collector) ==
    IF collector \in reg.collectors
    THEN [ reg EXCEPT !.panicked = TRUE ]
    ELSE [ reg EXCEPT !.collectors = @ \cup {collector} ]

\* createInterceptors, metrics: every build with metrics enabled makes new
\* server metrics and registers them on the registry it was given
RegisterMetrics ==
    /\ probe = NoProbe
    /\ metricsRegistry.builds < MaxBuilds
    /\ ~metricsRegistry.panicked
    /\ \E enabled \in BoolSet :
         LET reg == [ metricsRegistry EXCEPT !.builds = @ + 1 ]
         IN  metricsRegistry' =
                 IF enabled THEN MustRegister(reg, GrpcServerMetrics) ELSE reg
    /\ UNCHANGED buildVars

PureNext ==
    \/ RegisterMetrics
    \/ HttpMiddlewares
    \/ HttpResources
    \/ MetricsBuckets
    \/ ListenerSetting
    \/ HttpLogRecord
    \/ MetricsNames
    \/ Register
    \/ UnaryCall
    \/ HttpFault
    \/ IsExcluded

PureSpec == PureInit /\ [][PureNext]_vars

\* ------------------------------------------------------------------ claims

Present(c, name) ==
    \/ name \in {"Recovery", "Logging"}
    \/ name = "Tracing" /\ c.traceEnabled
    \/ name = "Metrics" /\ c.metricsEnabled

ExpectedChain(c) == SelectSeq(ConcernOrder, LAMBDA name : Present(c, name))

\* C1: for every setting of the tracing and metrics flags, the unary and the
\* streaming interceptor lists are both the sequence Recovery, Tracing,
\* Logging, Metrics restricted to the concerns that are present (Recovery and
\* Logging always, Tracing iff enabled, Metrics iff enabled).
C1_InterceptorOrder ==
    (app = "grpc" /\ built # "pending") =>
        /\ chain.unary = ExpectedChain(cfg)
        /\ chain.stream = ExpectedChain(cfg)

C1_Witness ==
    /\ app = "grpc"
    /\ built = "ok"
    /\ ~cfg.traceEnabled
    /\ cfg.metricsEnabled
    /\ chain.unary = <<"Recovery", "Logging", "Metrics">>
    /\ chain.stream = <<"Recovery", "Logging", "Metrics">>

\* C2: in networked mode, once the stop hook has been invoked it eventually
\* returns (or the process is gone), even when an in-flight call never
\* completes.
C2_StopEventuallyReturns ==
    (stopPc = "draining") ~> (stopPc = "returned" \/ crashed)

\* C3: when binding the listener fails, the failure is logged, the process
\* does not crash and Serve is never entered with the absent listener.
C3_BindFailureNeverServes ==
    (app = "grpc" /\ lis = "nil") =>
        /\ "failed to listen for grpc server" \in logs
        /\ ~crashed
        /\ "nil" \notin served

BuildErrorReported ==
    \/ returnedErr # "none"
    \/ \A f \in buildErrs : ("cannot resolve router " \o f) \in logs

\* C4: every build-time error is returned or logged and the server of that
\* build never serves, for the gRPC build and for the HTTP build.
C4_BuildErrorPreventsServing ==
    (buildErrs # {}) => (BuildErrorReported /\ srv # "serving")

StopReturns == stopPc # "returned" /\ stopPc' = "returned"

\* C5: when the gRPC stop hook returns in networked mode no call is in
\* flight; in test mode it returns at once, straight from the invocation,
\* leaving the calls in flight and the server as they were.
C5_StopDrainsOrReturnsAtOnce ==
    [][ (app = "grpc" /\ StopReturns) =>
            IF cfg.testEnv
            THEN stopPc = "idle" /\ calls' = calls /\ srv' = srv
            ELSE stopPc = "draining" /\ NoCallInFlight /\ calls' = calls
      ]_vars

C5_Witness ==
    /\ app = "grpc"
    /\ ~cfg.testEnv
    /\ stopPc = "returned"
    /\ stopInflight > 0
    /\ NoCallInFlight

Rank(s) ==
    CASE s = "new" -> 0 [] s = "serving" -> 1 [] s = "draining" -> 2
      [] s = "stopped" -> 3

\* C6 as stated: in networked mode and in test mode alike, after the stop
\* hook returned the server is not serving and a serve attempt is rejected.
C6_NoServingAfterStop ==
    (stopPc = "returned") => (srv # "serving" /\ extServe # "accepted")

\* C6 as amended: the state only moves forward NotStarted, Serving, Stopping,
\* Stopped; in networked mode, after the stop hook returned the server is
\* stopped for good and a serve attempt is rejected.
C6_NoServingAfterNetworkedStop ==
    [][ /\ Rank(srv') >= Rank(srv)
        /\ (~cfg.testEnv /\ stopPc = "returned") =>
              (srv = "stopped" /\ srv' = "stopped" /\ extServe' # "accepted")
      ]_vars

C6_Witness ==
    /\ ~cfg.testEnv
    /\ app = "grpc"
    /\ stopPc = "returned"
    /\ srv = "stopped"
    /\ extServe = "rejected"

\* C7: as long as the process lives, a start hook that has launched the
\* serve task can return whatever the task is doing (before binding, while
\* serving, after serving failed), and what it returns is always nil.
C7_StartReturnsNil ==
    /\ (startPc = "spawned" /\ ~crashed) =>
          ENABLED (GrpcOnStartReturn \/ HttpOnStartReturn)
    /\ (startPc = "returned") => (startErr = "nil")

C7_Witness ==
    /\ app = "grpc"
    /\ startPc = "returned"
    /\ startErr = "nil"
    /\ goPc = "done"
    /\ "failed to serve grpc server" \in logs

ListenerChoice ==
    app = "grpc" =>
        IF cfg.testEnv
        THEN /\ listenCalls = 0
             /\ served \subseteq {"bufconn"}
             /\ lis \in {"unset", "bufconn"}
        ELSE /\ "bufconn" \notin served
             /\ lis # "bufconn"
             /\ (goPc = "serving") => (lis = "tcp")

\* C8: in test mode the gRPC server is served on the in-memory listener only
\* and net.Listen is never called; otherwise it is served on the TCP
\* listener and never on the in-memory one; once chosen, the listener never
\* changes.
C8_ListenerByMode ==
    [][ /\ ListenerChoice
        /\ ListenerChoice'
        /\ (lis # "unset") => (lis' = lis)
      ]_vars

C8_Witness ==
    /\ app = "grpc"
    /\ cfg.testEnv
    /\ goPc = "serving"
    /\ srv = "serving"
    /\ served = {"bufconn"}
    /\ listenCalls = 0

\* C9: a call to a method of the logging exclusion list produces one log
\* record if it fails and none if it succeeds; a call to any other method
\* produces exactly one log record.
C9_LogRecordsPerCall ==
    (lastCall # NoCall) =>
        lastCall.logs =
            IF lastCall.m \in cfg.logExclude /\ lastCall.outcome = "ok"
            THEN 0 ELSE 1

C9_Witness ==
    /\ lastCall.m \in cfg.logExclude
    /\ lastCall.outcome = "err"
    /\ lastCall.logs = 1

\* C10: a panic of the handler is recovered and logged for every call,
\* whether its method is excluded from logging or not.
C10_FaultAlwaysLogged ==
    (lastCall.outcome = "panic") =>
        (lastCall.res = "internal" /\ lastCall.logs >= 1 /\ ~crashed)

C10_Witness ==
    /\ lastCall.outcome = "panic"
    /\ lastCall.m \in cfg.logExclude
    /\ lastCall.res = "internal"
    /\ lastCall.logs = 1

IsFault ==
    \/ probe.fn = "UnaryCall" /\ probe.outcome = "panic"
    \/ probe.fn = "HttpFault"

\* C11 as stated: a handler fault gives the caller an internal error whose
\* payload carries the fault's message exactly when debug mode is enabled,
\* whatever the other error options are.
C11_FaultDetailIffDebug ==
    IsFault => (probe.out.res = "internal"
                /\ (probe.out.detail <=> probe.c.appDebug))

\* C11 as amended: a handler fault gives the caller an internal error; for
\* gRPC its payload carries the fault's message exactly when debug mode is
\* enabled; for HTTP exactly when debug mode is enabled and errors.obfuscate
\* is not set (so never when debug mode is disabled).
C11_FaultDetailIffDebugUnlessObfuscated ==
    IsFault =>
        /\ probe.out.res = "internal"
        /\ probe.out.detail <=>
              IF probe.fn = "HttpFault"
              THEN probe.c.appDebug /\ ~probe.c.errorsObfuscate
              ELSE probe.c.appDebug

C11_Witness ==
    /\ probe.fn = "HttpFault"
    /\ probe.c.appDebug
    /\ ~probe.c.errorsObfuscate
    /\ probe.out.res = "internal"
    /\ probe.out.detail

ExpectedRes(outcome) == IF outcome = "panic" THEN "internal" ELSE outcome

TracedCall == probe.fn = "UnaryCall" /\ probe.c.traceEnabled

\* C12 as stated: with tracing enabled, a call to a method of the trace
\* exclusion list gets no span, completes with the handler's result and is
\* logged; any other call gets exactly one span.
C12_TraceExcludedStillLogged ==
    TracedCall =>
        IF probe.m \in probe.c.traceExclude
        THEN /\ probe.out.spans = 0
             /\ probe.out.res = ExpectedRes(probe.outcome)
             /\ probe.out.logs = 1
        ELSE probe.out.spans = 1

\* C12 as amended: with tracing enabled, a call to a method of the trace
\* exclusion list gets no span, completes with the handler's result and is
\* logged as any other call is: one record, or none when the method is also
\* in the logging exclusion list and the call succeeds; any other call gets
\* exactly one span.
C12_TraceExcludedLoggedAsUsual ==
    TracedCall =>
        IF probe.m \in probe.c.traceExclude
        THEN /\ probe.out.spans = 0
             /\ probe.out.res = ExpectedRes(probe.outcome)
             /\ probe.out.logs =
                   IF probe.m \in probe.c.logExclude /\ probe.outcome = "ok"
                   THEN 0 ELSE 1
        ELSE probe.out.spans = 1

C12_Witness ==
    /\ TracedCall
    /\ probe.m \in probe.c.traceExclude
    /\ probe.m \notin probe.c.logExclude
    /\ probe.outcome = "ok"
    /\ probe.out.spans = 0
    /\ probe.out.res = "ok"
    /\ probe.out.logs = 1

OnionEvents(ch) ==
    [ k \in 1..(2 * Len(ch) + 1) |->
        IF k <= Len(ch) THEN "enter " \o ch[k]
        ELSE IF k = Len(ch) + 1 THEN "handler"
        ELSE "leave " \o ch[2 * Len(ch) + 2 - k] ]

\* C16: a call enters the interceptors in the order of the list handed to
\* the server, then runs the handler, then leaves them in the reverse order;
\* the first element, Recovery, encloses everything else.
C16_OnionOrder ==
    (probe.fn = "UnaryCall") =>
        /\ probe.out.events = OnionEvents(probe.chain)
        /\ probe.chain[1] = "Recovery"
        /\ probe.out.events[1] = "enter Recovery"
        /\ probe.out.events[Len(probe.out.events)] = "leave Recovery"

C16_Witness ==
    /\ probe.fn = "UnaryCall"
    /\ probe.out.events =
         << "enter Recovery", "enter Tracing", "enter Logging",
            "enter Metrics", "handler", "leave Metrics", "leave Logging",
            "leave Tracing", "leave Recovery" >>

\* C13 as stated: for gRPC and for HTTP, a call is excluded exactly when its
\* name equals an entry of the exclusion list, and never with an empty list.
C13_ExclusionIsExactMatch ==
    (probe.fn = "IsExcluded") =>
        /\ probe.out <=> (probe.name \in probe.rules)
        /\ (probe.rules = {}) => ~probe.out

\* C13 as amended: a gRPC call is excluded from logging or tracing exactly
\* when its full method name equals an entry of the list; an HTTP request is
\* excluded exactly when its URI begins with an entry of the list (the list
\* holds prefixes); with an empty list nothing is excluded.
C13_ExclusionExactOrPrefix ==
    (probe.fn = "IsExcluded") =>
        /\ probe.out <=>
              IF probe.kind \in {"grpc trace", "grpc log"}
              THEN probe.name \in probe.rules
              ELSE \E r \in probe.rules, rest \in Names :
                       probe.name = r \o rest
        /\ (probe.rules = {}) => ~probe.out

C13_Witness ==
    /\ probe.fn = "IsExcluded"
    /\ probe.kind = "http log"
    /\ probe.name = <<"/", "a">>
    /\ probe.rules = { <<"/">> }
    /\ probe.out

HasDuplicate(regs) ==
    \E i \in 1..Len(regs), j \in 1..Len(regs) : i < j /\ regs[i] = regs[j]

\* the services or handlers of the registry that the build put on the server
RegisteredFromRegistry ==
    SelectSeq(probe.out.registered, LAMBDA x : x # HealthService)

\* C14: two registrations with the same identity make the resolution fail
\* with a duplicate-registration error and nothing of the registry is
\* registered; N distinct registrations are registered on the server, each
\* once and in registration order.
C14_RegistrationsResolved ==
    (probe.fn = "Register") =>
        IF HasDuplicate(probe.regs)
        THEN /\ probe.out.resolveErr = "duplicate registration"
             /\ RegisteredFromRegistry = <<>>
        ELSE /\ probe.out.resolveErr = "none"
             /\ Len(RegisteredFromRegistry) = Len(probe.regs)
             /\ \A i \in 1..Len(probe.regs) :
                    RegisteredFromRegistry[i] = probe.regs[i]

C14_Witness ==
    /\ probe.fn = "Register"
    /\ probe.kind = "grpc"
    /\ probe.regs = <<"s2", "s1", "s3">>
    /\ probe.out.err = "none"
    /\ probe.out.registered = <<HealthService, "s2", "s1", "s3">>

\* C15: repeated server builds against the same metrics registry neither
\* register the collector twice nor fail or panic.
C15_MetricsRegistrationGuarded ==
    ~metricsRegistry.panicked

DefaultMiddlewareOrder == << "request-id", "Tracing", "Logging", "Metrics" >>

DefaultPresent(c, name) ==
    \/ name \in {"request-id", "Logging"}
    \/ name = "Tracing" /\ c.traceEnabled
    \/ name = "Metrics" /\ c.metricsEnabled

\* the registered middlewares of one kind, in resolution order
OfKind(mws, kind) ==
    SelectSeq([ i \in 1..Len(mws) |-> << "registered", i >> ],
              LAMBDA m : mws[m[2]] = kind)

\* C17: for every configuration the HTTP middleware list is request-id,
\* Tracing, Logging, Metrics restricted to the ones present (Tracing and
\* Metrics iff enabled), followed by every middleware registered with global
\* scope; the pre-routing middlewares, and only they, are on the pre-routing
\* stage.
C17_HttpMiddlewareOrder ==
    probe.fn = "HttpMiddlewares" =>
        /\ probe.echo.use =
               SelectSeq(DefaultMiddlewareOrder,
                         LAMBDA name : DefaultPresent(probe.c, name))
               \o OfKind(probe.mws, "GlobalUse")
        /\ probe.echo.pre = OfKind(probe.mws, "GlobalPre")

C17_Witness ==
    /\ probe.fn = "HttpMiddlewares"
    /\ probe.c.traceEnabled
    /\ probe.c.metricsEnabled
    /\ probe.mws = << "GlobalPre", "GlobalUse" >>
    /\ Len(probe.echo.use) = 5
    /\ Len(probe.echo.pre) = 1

\* the severity the outcome of a call stands for
OutcomeSeverity(code) ==
    CASE code \in 500..599 -> "error"
      [] code \in 400..499 -> "warn"
      [] OTHER             -> "info"

\* C18 as stated: for every configuration the severity of the record of an
\* HTTP call is informational on success, warning on a client-class error
\* and error on a server-class error.
C18_SeverityFromOutcome ==
    probe.fn = "HttpLogRecord" => probe.level = OutcomeSeverity(probe.code)

\* C18, amended: the severity of the record of an HTTP call is derived from
\* the outcome in that way whenever modules.http.server.log.level_from_response
\* is enabled.
C18_SeverityFromOutcomeWhenEnabled ==
    (probe.fn = "HttpLogRecord" /\ probe.c.levelFromResponse) =>
        probe.level = OutcomeSeverity(probe.code)

C18_Witness ==
    /\ probe.fn = "HttpLogRecord"
    /\ probe.c.levelFromResponse
    /\ probe.code = 400
    /\ probe.level = "warn"

\* to is from with every '-' replaced by '_'
IsNormalized(from, to) ==
    /\ Len(to) = Len(from)
    /\ \A i \in 1..Len(from) :
         to[i] = (IF from[i] = "-" THEN "_" ELSE from[i])

NoDash(str) == \A i \in 1..Len(str) : str[i] # "-"

\* C19: with metrics enabled, an unset namespace stands for the application
\* name and an unset subsystem for the module name, no name the collectors
\* are registered under contains '-', and for gRPC the registered subsystem
\* is namespace, "_", subsystem with every '-' replaced by '_'.
C19_MetricsNamesNormalized ==
    probe.fn = "MetricsNames" =>
        LET ns  == IF probe.namespace = <<>> THEN probe.appName
                   ELSE probe.namespace
            sub == IF probe.subsystem # <<>> THEN probe.subsystem
                   ELSE IF probe.kind = "grpc" THEN GrpcModuleName
                   ELSE HttpModuleName
        IN  /\ NoDash(probe.names.namespace)
            /\ NoDash(probe.names.subsystem)
            /\ probe.kind = "grpc" =>
                   IsNormalized(ns \o <<"_">> \o sub, probe.names.subsystem)
            /\ probe.kind = "http" =>
                   /\ IsNormalized(ns, probe.names.namespace)
                   /\ IsNormalized(sub, probe.names.subsystem)

C19_Witness ==
    /\ probe.fn = "MetricsNames"
    /\ probe.kind = "grpc"
    /\ probe.namespace = <<>>
    /\ probe.appName = <<"a", "-", "a">>
    /\ probe.subsystem = <<"-", "a">>
    /\ probe.names.subsystem = <<"a", "_", "a", "_", "_", "a">>

\* C20: in networked mode, whatever the interleaving of the serve task and
\* the stop hook, once the stop hook returned the gRPC server is never serving
\* and accepts no call, and a Serve the task begins from then on returns at
\* once with an error: the task ends, the failure is logged, the process
\* lives on.
C20_ServeAfterStopRejected ==
    [][ (app = "grpc" /\ ~cfg.testEnv /\ stopPc = "returned") =>
            /\ srv' # "serving"
            /\ \A i \in CallIds : calls[i] = "idle" => calls'[i] = "idle"
            /\ (goPc = "bound" /\ goPc' # "bound") =>
                   /\ goPc' = "done"
                   /\ ~crashed'
                   /\ "failed to serve grpc server" \in logs'
      ]_vars

\* C21: in the gRPC build the health service, iff healthcheck is enabled,
\* and then the resolved services in resolution order are registered in a
\* step taken before the lifecycle hook is there and before anything was
\* served; nothing is registered from then on; when resolution fails no
\* resolved service is registered and no hook is appended.
C21_RegisteredBeforeServing ==
    /\ [] ( (app = "grpc" /\ built = "ok") =>
              /\ hooked
              /\ services.registered =
                    (IF cfg.healthcheck THEN <<HealthService>> ELSE <<>>)
                    \o services.regs )
    /\ [] ( (app = "grpc" /\ returnedErr = "resolve") =>
              /\ ~hooked
              /\ \A i \in 1..Len(services.registered) :
                    services.registered[i] = HealthService )
    /\ [][ services' # services =>
              /\ ~hooked
              /\ srv = "new"
              /\ goPc = "none"
              /\ served' = {} ]_vars
    /\ [][ (hooked \/ srv # "new" \/ served # {}) =>
              services' = services ]_vars

C21_Witness ==
    /\ app = "grpc"
    /\ cfg.healthcheck
    /\ services.registered = <<HealthService, "s2", "s1">>
    /\ srv = "serving"

\* the part of withRegisteredResources an attach operation belongs to
AttachPhase(op) ==
    CASE op \in {"Group", "GroupAdd"} -> 1
      [] op \in {"Pre", "Use"}        -> 2
      [] OTHER                        -> 3

\* route a is attached before route b when nothing is reordered
RouteBefore(a, b) ==
    \/ a[1] = "group" /\ b[1] = "handler"
    \/ a[1] = b[1] /\ a[2] < b[2]
    \/ a[1] = b[1] /\ a[2] = b[2] /\ a[3] < b[3]

ExpectedRoutes(groups, handlers) ==
    UNION { { << "group", g, h >> : h \in 1..groups[g] } :
            g \in 1..Len(groups) }
        \cup { << "handler", 0, h >> : h \in 1..handlers }

\* C22: the HTTP build attaches the groups with their handlers, then the
\* middlewares, then the standalone handlers, each kind in resolution order;
\* a GlobalPre middleware is on the pre-routing stage only, a GlobalUse one on
\* the global stage only, one of another kind on neither.
C22_ResourcesPartitionedInOrder ==
    probe.fn = "HttpResources" =>
        LET e == probe.echo
        IN  /\ \A i, j \in 1..Len(e.ops) :
                   i < j => AttachPhase(e.ops[i]) <= AttachPhase(e.ops[j])
            /\ { e.routes[i] : i \in 1..Len(e.routes) } =
                   ExpectedRoutes(probe.groups, probe.handlers)
            /\ \A i, j \in 1..Len(e.routes) :
                   i < j => RouteBefore(e.routes[i], e.routes[j])
            /\ Cardinality({ i \in 1..Len(e.ops) : e.ops[i] = "Group" }) =
                   Len(probe.groups)
            /\ \A k \in 1..Len(probe.mws) :
                   LET m     == << "registered", k >>
                       onPre == \E i \in 1..Len(e.pre) : e.pre[i] = m
                       onUse == \E i \in 1..Len(e.use) : e.use[i] = m
                   IN  /\ onPre <=> probe.mws[k] = "GlobalPre"
                       /\ onUse <=> probe.mws[k] = "GlobalUse"
            /\ \A st \in { e.pre, e.use } : \A i, j \in 1..Len(st) :
                   i < j => st[i][2] < st[j][2]

C22_Witness ==
    /\ probe.fn = "HttpResources"
    /\ probe.groups = << 2, 1 >>
    /\ probe.mws = << "GlobalUse", "GlobalPre" >>
    /\ probe.handlers = 2
    /\ probe.echo.ops = << "Group", "GroupAdd", "GroupAdd", "Group",
                           "GroupAdd", "Use", "Pre", "Add", "Add" >>
    /\ probe.echo.pre = << << "registered", 2 >> >>
    /\ probe.echo.use = << << "registered", 1 >> >>

\* where the entries of a comma-separated string begin and end: before the
\* first character, at every comma, and after the last character
EntryBounds(str) ==
    {0, Len(str) + 1} \cup { k \in 1..Len(str) : str[k] = "," }

\* the entry that begins after bound a
EntryAfter(str, a) ==
    LET b == CHOOSE x \in EntryBounds(str) :
                 /\ x > a
                 /\ \A y \in EntryBounds(str) : y > a => x <= y
    IN  SubSeq(str, a + 1, b - 1)

\* the bounds after which an entry that parses as a number begins
ParsableEntries(str) ==
    { a \in EntryBounds(str) \ {Len(str) + 1} :
          ~ParseFloat(EntryAfter(str, a)).err }

\* C23: the bucket list of the gRPC metrics collector is the numbers among
\* the entries of the comma-separated configuration string, spaces ignored,
\* in their configured order, the other entries being skipped; it is the
\* default list iff the string is empty or has no entry that is a number, and
\* it is never empty.
C23_BucketsParsedOrDefault ==
    probe.fn = "MetricsBuckets" =>
        LET str      == RemoveSpaces(probe.bucketsConfig)
            parsable == ParsableEntries(str)
        IN  /\ probe.buckets # <<>>
            /\ (probe.buckets = DefBuckets) <=>
                   (probe.bucketsConfig = <<>> \/ parsable = {})
            /\ parsable # {} =>
                   /\ Len(probe.buckets) = Cardinality(parsable)
                   /\ \A a \in parsable :
                          probe.buckets[
                              1 + Cardinality({ b \in parsable : b < a })] =
                              ParseFloat(EntryAfter(str, a)).f

C23_Witness ==
    /\ probe.fn = "MetricsBuckets"
    /\ probe.bucketsConfig = << "x", ",", " ", ".", "1" >>
    /\ probe.buckets = << Number(1, 1) >>

\* C24: a listener is made with the configured port or buffer size when that
\* is not 0, and with the default (port 50051 for gRPC, 8080 for HTTP, buffer
\* size 1024*1024) when it is unset or 0.
C24_DefaultOnlyForZero ==
    probe.fn = "ListenerSetting" =>
        IF probe.setting.set /\ probe.setting.value # 0
        THEN probe.used = probe.setting.value
        ELSE /\ probe.key = "modules.grpc.server.port" => probe.used = 50051
             /\ probe.key = "modules.http.server.port" => probe.used = 8080
             /\ probe.key = "modules.grpc.server.test.bufconn.size" =>
                    probe.used = 1048576

C24_Witness ==
    /\ probe.fn = "ListenerSetting"
    /\ probe.key = "modules.grpc.server.port"
    /\ probe.setting = [ set |-> TRUE, value |-> 8080 ]
    /\ probe.used = 8080

====
